---- MODULE Spec2Model ----
(***************************************************************************)
(* Model of libsqlx-server/src/snapshot_store.rs: the snapshot index, a   *)
(* table SnapshotKey -> SnapshotMeta inside a heed (LMDB) environment.     *)
(*                                                                         *)
(* The environment is modelled by its contract: one write transaction at  *)
(* a time, read transactions that see the table as committed when they    *)
(* began, keys ordered as byte strings, put replacing the value of a key  *)
(* that is already present (the table is created without DUP_SORT).        *)
(*                                                                         *)
(* A u64 is FrameBytes bytes wide here (8 in the build): TLC's integers   *)
(* are 32 bits wide, so the width is scaled and U64_MAX is the largest    *)
(* value of that width.  Every byte keeps its 256 values.                  *)
(***************************************************************************)
EXTENDS Integers, Sequences, FiniteSets, TLC

VARIABLES committed, wtxn, reg, rd, codec, store

vars == <<committed, wtxn, reg, rd, codec, store>>

----------------------------------------------------------------------------
(* Bounds *)

\* bytes of a frame number (size_of::<u64>() is 8 in the build)
FrameBytes == 2

\* bytes of a DatabaseId
DatabaseIdLen == 2

\* rows a table (committed, or as seen by the write transaction) may hold
MaxRows == 2

----------------------------------------------------------------------------
(* Integers and bytes *)

\* values of one u8
ByteBase == 256

RECURSIVE Pow(_, _)
Pow(b, n) == IF n = 0 THEN 1 ELSE b * Pow(b, n - 1)

\* u64::MAX at the model's width
U64_MAX == Pow(ByteBase, FrameBytes) - 1

Min(x, y) == IF x <= y THEN x ELSE y

\* least significant byte first
to_le_bytes(value) ==
    [i \in 1..FrameBytes |-> (value \div Pow(ByteBase, i - 1)) % ByteBase]

\* u64::to_be_bytes: most significant byte first
to_be_bytes(value) ==
    [i \in 1..FrameBytes |-> (value \div Pow(ByteBase, FrameBytes - i)) % ByteBase]

\* the bytes read least significant first
RECURSIVE from_le_bytes(_)
from_le_bytes(bytes) ==
    IF bytes = <<>> THEN 0
    ELSE bytes[1] + ByteBase * from_le_bytes(SubSeq(bytes, 2, Len(bytes)))

\* u64::from_be_bytes
RECURSIVE from_be_bytes(_)
from_be_bytes(bytes) ==
    IF bytes = <<>> THEN 0
    ELSE from_be_bytes(SubSeq(bytes, 1, Len(bytes) - 1)) * ByteBase + bytes[Len(bytes)]

\* impl From<u64> for BEU64
BEU64_from(value) == to_be_bytes(value)

\* impl From<BEU64> for u64
u64_from(beu64) == from_be_bytes(beu64)

\* the order of LMDB keys: memcmp over the common prefix, then the shorter first
BytesLess(x, y) ==
    \/ \E i \in 1..Min(Len(x), Len(y)) :
          /\ \A j \in 1..(i - 1) : x[j] = y[j]
          /\ x[i] < y[i]
    \/ /\ Len(x) < Len(y)
       /\ \A j \in 1..Len(x) : x[j] = y[j]

BytesLeq(x, y) == x = y \/ BytesLess(x, y)

----------------------------------------------------------------------------
(* Keys and values *)

\* two database identifiers; the first is byte-wise smaller than the second
DbLow == [i \in 1..DatabaseIdLen |-> IF i = DatabaseIdLen THEN 1 ELSE 0]
DbHigh == [i \in 1..DatabaseIdLen |-> IF i = 1 THEN 1 ELSE 0]
DatabaseIds == {DbLow, DbHigh}

Uuids == {"X", "Y"}

\* struct SnapshotMeta
SnapshotMeta(snapshot_id) == [snapshot_id |-> snapshot_id]

\* struct SnapshotKey, its frame numbers held as BEU64
SnapshotKey(database_id, start_frame_no, end_frame_no) ==
    [database_id |-> database_id,
     start_frame_no |-> start_frame_no,
     end_frame_no |-> end_frame_no]

\* CowType<SnapshotKey>::bytes_encode: the #[repr(C)] struct read as bytes
key_bytes(key) == key.database_id \o key.start_frame_no \o key.end_frame_no

\* CowType<SnapshotKey>::bytes_decode: the bytes read back as the struct
key_from_bytes(bytes) ==
    SnapshotKey(SubSeq(bytes, 1, DatabaseIdLen),
                SubSeq(bytes, DatabaseIdLen + 1, DatabaseIdLen + FrameBytes),
                SubSeq(bytes, DatabaseIdLen + FrameBytes + 1, DatabaseIdLen + 2 * FrameBytes))

----------------------------------------------------------------------------
(* The table *)

EmptyTable == [k \in {} |-> SnapshotMeta("X")]

\* a put that leaves the one row in the table
put_alone(table, kbytes, data) == [k \in {kbytes} |-> data]

\* heed::Database::put: insert, or replace the value of a key already there
put(table, kbytes, data) == [k \in DOMAIN table \cup {kbytes} |->
                                IF k = kbytes THEN data ELSE table[k]]

NoEntry == [found |-> FALSE, key |-> <<>>, value |-> SnapshotMeta("X")]

\* heed::Database::get_lower_than_or_equal_to: the entry with the greatest key
\* not above the probe
get_lower_than_or_equal_to(table, probe) ==
    LET below == {k \in DOMAIN table : BytesLeq(k, probe)}
    IN  IF below = {} THEN NoEntry
        ELSE LET k == CHOOSE m \in below : \A o \in below : BytesLeq(o, m)
             IN  [found |-> TRUE, key |-> k, value |-> table[k]]

----------------------------------------------------------------------------
(* locate's result *)

None == [kind |-> "None", v |-> SnapshotMeta("X"), msg |-> ""]
Some(v) == [kind |-> "Some", v |-> v, msg |-> ""]
Panic(msg) == [kind |-> "panic", v |-> SnapshotMeta("X"), msg |-> msg]

\* a probe key that ends at frame 0
probe_key_end_zero(database_id, frame_no) ==
    SnapshotKey(database_id, BEU64_from(frame_no), BEU64_from(0))

\* a probe key that ends at the frame looked up
probe_key_end_at_frame(database_id, frame_no) ==
    SnapshotKey(database_id, BEU64_from(frame_no), BEU64_from(frame_no))

\* the probe key of locate
probe_key(database_id, frame_no) ==
    SnapshotKey(database_id, BEU64_from(frame_no), BEU64_from(U64_MAX))

\* the match without the comparison of database_id
locate_match_any_db(entry, database_id, frame_no) ==
    LET key == key_from_bytes(entry.key)
    IN  IF /\ frame_no >= u64_from(key.start_frame_no)
           /\ frame_no <= u64_from(key.end_frame_no)
        THEN Some(entry.value)
        ELSE None

\* the match without the comparison with the end of the range
locate_match_start_only(entry, database_id, frame_no) ==
    LET key == key_from_bytes(entry.key)
    IN  IF key.database_id # database_id THEN None
        ELSE IF frame_no >= u64_from(key.start_frame_no)
             THEN Some(entry.value)
             ELSE None

\* the match with the end of the range excluded
locate_match_end_excluded(entry, database_id, frame_no) ==
    LET key == key_from_bytes(entry.key)
    IN  IF key.database_id # database_id THEN None
        ELSE IF /\ frame_no >= u64_from(key.start_frame_no)
                /\ frame_no < u64_from(key.end_frame_no)
             THEN Some(entry.value)
             ELSE None

\* the match of locate on a retrieved entry
locate_match(entry, database_id, frame_no) ==
    LET key == key_from_bytes(entry.key)
    IN  IF key.database_id # database_id THEN None
        ELSE IF /\ frame_no >= u64_from(key.start_frame_no)
                /\ frame_no <= u64_from(key.end_frame_no)
             THEN Some(entry.value)
             ELSE None

\* a lookup that goes through every row of the database for one that contains
\* the frame
locate_any_covering(view, database_id, frame_no) ==
    LET hits == {k \in DOMAIN view :
                    /\ key_from_bytes(k).database_id = database_id
                    /\ frame_no >= u64_from(key_from_bytes(k).start_frame_no)
                    /\ frame_no <= u64_from(key_from_bytes(k).end_frame_no)}
    IN  IF hits = {} THEN None ELSE Some(view[CHOOSE k \in hits : TRUE])

\* locate on the table its read transaction sees, the store answering
locate(view, database_id, frame_no) ==
    LET entry == get_lower_than_or_equal_to(view, key_bytes(probe_key(database_id, frame_no)))
    IN  IF ~entry.found THEN None
        ELSE locate_match(entry, database_id, frame_no)

----------------------------------------------------------------------------
(* Inputs *)

\* frame numbers looked up
FrameNos == {1, 2, U64_MAX - 1, U64_MAX}

\* ranges <<start_frame_no, end_frame_no>> registered: two adjacent ones, the
\* second being the single frame u64::MAX, one that contains both, and one with
\* its start above its end
Ranges == {<<2, U64_MAX - 1>>, <<U64_MAX, U64_MAX>>, <<1, U64_MAX>>, <<2, 1>>}

----------------------------------------------------------------------------
(* State *)

NoTxn == [state |-> "none", base |-> EmptyTable, view |-> EmptyTable]

\* no read transaction: store_err names the store call that failed, if one did
RdIdle == [pc |-> "idle", database_id |-> DbLow, frame_no |-> 0,
           view |-> EmptyTable, store_err |-> "none", outcome |-> None]

\* the last register call of the write transaction
RegNone == [called |-> FALSE, put_ok |-> TRUE, outcome |-> "none"]
RegDone(put_ok) == [called |-> TRUE, put_ok |-> put_ok,
                    outcome |-> IF put_ok THEN "returned" ELSE "panic"]

\* the key codec at rest
CodecIdle == [pc |-> "idle",
              a |-> [database_id |-> DbLow, start |-> 0, end |-> 0],
              b |-> [database_id |-> DbLow, start |-> 0, end |-> 0],
              ea |-> <<>>, eb |-> <<>>,
              da |-> [database_id |-> DbLow, start |-> 0, end |-> 0]]

\* the store as SnapshotStore::new returned it: failed names the step of new
\* that failed, if one did; table says that the named table is in the
\* environment, committed
StoreOpen == [pc |-> "open", failed |-> "none", outcome |-> "Ok", table |-> TRUE]

Init ==
    /\ committed = EmptyTable
    /\ wtxn = NoTxn
    /\ reg = RegNone
    /\ rd = RdIdle
    /\ codec = CodecIdle
    /\ store = StoreOpen

----------------------------------------------------------------------------
(* The caller's write transaction *)

\* env.write_txn() by the caller: one writer at a time
BeginWrite ==
    /\ wtxn.state # "open"
    /\ wtxn' = [state |-> "open", base |-> committed, view |-> committed]
    /\ reg' = RegNone
    /\ UNCHANGED <<committed, rd, codec, store>>

\* a register that publishes its row at once
register_published(database_id, start_frame_no, end_frame_no, snapshot_id, put_ok) ==
    LET key == SnapshotKey(database_id, BEU64_from(start_frame_no), BEU64_from(end_frame_no))
        data == SnapshotMeta(snapshot_id)
    IN  /\ wtxn.state = "open"
        /\ put_ok
        /\ Cardinality(DOMAIN put(wtxn.view, key_bytes(key), data)) <= MaxRows
        /\ wtxn' = [wtxn EXCEPT !.view = put(wtxn.view, key_bytes(key), data)]
        /\ committed' = put(wtxn.view, key_bytes(key), data)
        /\ reg' = RegDone(put_ok)
        /\ UNCHANGED <<rd, codec, store>>

\* SnapshotStore::register, in the caller's write transaction.  put_ok is the
\* store's answer to the put: on an error the unwrap panics, and the unwinding
\* drops the caller's transaction, which aborts it.
register(database_id, start_frame_no, end_frame_no, snapshot_id, put_ok) ==
    LET key == SnapshotKey(database_id, BEU64_from(start_frame_no), BEU64_from(end_frame_no))
        data == SnapshotMeta(snapshot_id)
    IN  /\ wtxn.state = "open"
        /\ IF put_ok
           THEN /\ Cardinality(DOMAIN put(wtxn.view, key_bytes(key), data)) <= MaxRows
                /\ wtxn' = [wtxn EXCEPT !.view = put(wtxn.view, key_bytes(key), data)]
           ELSE wtxn' = [NoTxn EXCEPT !.state = "aborted"]
        /\ reg' = RegDone(put_ok)
        /\ UNCHANGED <<committed, rd, codec, store>>

\* txn.commit() by the caller
Commit(commit_ok) ==
    /\ wtxn.state = "open"
    /\ IF commit_ok
       THEN /\ committed' = wtxn.view
            /\ wtxn' = [NoTxn EXCEPT !.state = "committed"]
       ELSE /\ committed' = committed
            /\ wtxn' = [NoTxn EXCEPT !.state = "aborted"]
    /\ UNCHANGED <<reg, rd, codec, store>>

\* txn.abort() by the caller, or the transaction dropped
Abort ==
    /\ wtxn.state = "open"
    /\ wtxn' = [NoTxn EXCEPT !.state = "aborted"]
    /\ UNCHANGED <<committed, reg, rd, codec, store>>

----------------------------------------------------------------------------
(* SnapshotStore::locate, in the two steps other threads can come between *)

\* a read that sees the rows of the open write transaction
read_txn_dirty == IF wtxn.state = "open" THEN wtxn.view ELSE committed

\* the table a read transaction begun now sees
read_txn == committed

\* self.env.read_txn().unwrap(): the call's first step.  The arguments are
\* first read when the probe key is built, and are drawn there.
LocateBegin(txn_ok) ==
    /\ rd.pc # "txn"
    /\ rd' = IF txn_ok
             THEN [RdIdle EXCEPT !.pc = "txn", !.view = read_txn]
             ELSE [RdIdle EXCEPT !.pc = "done", !.store_err = "read_txn",
                                 !.outcome = Panic("unwrap")]
    /\ UNCHANGED <<committed, wtxn, reg, codec, store>>

\* a lookup that takes the row it returns out of the table
LocateGet_consuming(database_id, frame_no, get_ok) ==
    LET entry == get_lower_than_or_equal_to(rd.view, key_bytes(probe_key(database_id, frame_no)))
        result == locate(rd.view, database_id, frame_no)
    IN  /\ rd.pc = "txn"
        /\ get_ok
        /\ rd' = [pc |-> "done", database_id |-> database_id, frame_no |-> frame_no,
                  view |-> EmptyTable, store_err |-> "none", outcome |-> result]
        /\ committed' = IF result.kind = "Some"
                        THEN [k \in DOMAIN committed \ {entry.key} |-> committed[k]]
                        ELSE committed
        /\ UNCHANGED <<wtxn, reg, codec, store>>

\* the probe key, the query, the match and the return, which drops the read
\* transaction
LocateGet(database_id, frame_no, get_ok) ==
    /\ rd.pc = "txn"
    /\ rd' = [pc |-> "done", database_id |-> database_id, frame_no |-> frame_no,
              view |-> EmptyTable,
              store_err |-> IF get_ok THEN "none" ELSE "get",
              outcome |-> IF get_ok
                          THEN locate(rd.view, database_id, frame_no)
                          ELSE Panic("todo")]
    /\ UNCHANGED <<committed, wtxn, reg, codec, store>>

----------------------------------------------------------------------------
Next ==
    \/ BeginWrite
    \/ \E d \in DatabaseIds, r \in Ranges, u \in Uuids, ok \in BOOLEAN :
          register(d, r[1], r[2], u, ok)
    \/ \E ok \in BOOLEAN : Commit(ok)
    \/ Abort
    \/ \E ok \in BOOLEAN : LocateBegin(ok)
    \/ \E d \in DatabaseIds, f \in FrameNos, ok \in BOOLEAN : LocateGet(d, f, ok)

Spec == Init /\ [][Next]_vars

----------------------------------------------------------------------------
(* The key codec alone: two triples are encoded as register encodes them, *)
(* and the first is decoded as locate decodes a retrieved key.             *)

\* frame numbers at the edges of a byte and of the width
CodecFrameNos == {0, 1, ByteBase - 1, ByteBase, ByteBase + 1, U64_MAX - 1, U64_MAX}

Triples == [database_id : DatabaseIds, start : CodecFrameNos, end : CodecFrameNos]

\* the key register builds, as the bytes the table stores
encode(t) == key_bytes(SnapshotKey(t.database_id, BEU64_from(t.start), BEU64_from(t.end)))

\* the triple locate reads from a retrieved key
decode(bytes) ==
    LET key == key_from_bytes(bytes)
    IN  [database_id |-> key.database_id,
         start |-> u64_from(key.start_frame_no),
         end |-> u64_from(key.end_frame_no)]

CodecInit ==
    /\ committed = EmptyTable
    /\ wtxn = NoTxn
    /\ reg = RegNone
    /\ rd = RdIdle
    /\ \E a \in Triples, b \in Triples :
          codec = [CodecIdle EXCEPT !.pc = "input", !.a = a, !.b = b]
    /\ store = StoreOpen

Encode ==
    /\ codec.pc = "input"
    /\ codec' = [codec EXCEPT !.pc = "encoded", !.ea = encode(codec.a), !.eb = encode(codec.b)]
    /\ UNCHANGED <<committed, wtxn, reg, rd, store>>

Decode ==
    /\ codec.pc = "encoded"
    /\ codec' = [codec EXCEPT !.pc = "decoded", !.da = decode(codec.ea)]
    /\ UNCHANGED <<committed, wtxn, reg, rd, store>>

CodecNext == Encode \/ Decode

SpecCodec == CodecInit /\ [][CodecNext]_vars

----------------------------------------------------------------------------
(* The store from its construction on: the environment holds the named    *)
(* table or not, and nothing is called before new has returned a store.   *)

\* SnapshotStore::new.  The three store calls answer in turn: the write
\* transaction is unwrapped, create_database and commit are propagated with ?,
\* which drops the transaction.
new(txn_ok, create_ok, commit_ok) ==
    /\ store.pc = "new"
    /\ store' =
          IF ~txn_ok
          THEN [store EXCEPT !.pc = "failed", !.failed = "write_txn", !.outcome = "panic"]
          ELSE IF ~create_ok
          THEN [store EXCEPT !.pc = "failed", !.failed = "create_database", !.outcome = "Err"]
          ELSE IF ~commit_ok
          THEN [store EXCEPT !.pc = "failed", !.failed = "commit", !.outcome = "Err"]
          ELSE StoreOpen
    /\ UNCHANGED <<committed, wtxn, reg, rd, codec>>

OpenInit ==
    /\ committed = EmptyTable
    /\ wtxn = NoTxn
    /\ reg = RegNone
    /\ rd = RdIdle
    /\ codec = CodecIdle
    /\ \E table \in BOOLEAN :
          store = [pc |-> "new", failed |-> "none", outcome |-> "none", table |-> table]

OpenNext ==
    \/ \E txn_ok \in BOOLEAN, create_ok \in BOOLEAN, commit_ok \in BOOLEAN :
          new(txn_ok, create_ok, commit_ok)
    \/ store.pc = "open" /\ Next

SpecOpen == OpenInit /\ [][OpenNext]_vars

----------------------------------------------------------------------------
(* Order of the logical triples *)

\* (database_id bytes, start_frame_no, end_frame_no) in lexicographic order
TripleLess(a, b) ==
    \/ BytesLess(a.database_id, b.database_id)
    \/ /\ a.database_id = b.database_id
       /\ \/ a.start < b.start
          \/ a.start = b.start /\ a.end < b.end

\* C5: the byte-wise order of two encoded keys is the lexicographic order of
\* their (database_id, start_frame_no, end_frame_no); in particular with equal
\* database_id and a.start < b.start, encode(a) < encode(b) for any end values.
C5_OrderPreservation ==
    codec.pc \in {"encoded", "decoded"} =>
        /\ BytesLess(codec.ea, codec.eb) <=> TripleLess(codec.a, codec.b)
        /\ (codec.a.database_id = codec.b.database_id /\ codec.a.start < codec.b.start)
               => BytesLess(codec.ea, codec.eb)

\* two keys of one database whose starts differ in the high byte only and whose
\* ends are in the opposite order, encoded
C5_Witness ==
    /\ codec.pc = "encoded"
    /\ codec.a.database_id = codec.b.database_id
    /\ codec.a.start = 1 /\ codec.b.start = ByteBase
    /\ codec.a.end = U64_MAX /\ codec.b.end = 0
    /\ BytesLess(codec.ea, codec.eb)

\* C6: decoding the encoded key of a triple with start <= end gives the triple back
C6_RoundTrip ==
    (codec.pc = "decoded" /\ codec.a.start <= codec.a.end) => codec.da = codec.a

\* a triple whose frame numbers fill more than one byte, encoded and decoded
C6_Witness ==
    /\ codec.pc = "decoded"
    /\ codec.a.start = ByteBase + 1 /\ codec.a.end = U64_MAX - 1
    /\ codec.da = codec.a
    /\ Len(codec.ea) = DatabaseIdLen + 2 * FrameBytes

----------------------------------------------------------------------------
(* The rows of a table, as registered *)

\* the encoded key of a range of a database
KeyOf(database_id, start, end) ==
    encode([database_id |-> database_id, start |-> start, end |-> end])

Covers(t, frame_no) == t.start <= frame_no /\ frame_no <= t.end

Overlap(t, u) == t.start <= u.end /\ u.start <= t.end

\* the rows of database_id in a table
KeysOf(view, database_id) == {k \in DOMAIN view : decode(k).database_id = database_id}

\* the caller's precondition: start <= end, and the ranges of one database
\* pairwise disjoint
WellFormed(view) ==
    /\ \A k \in DOMAIN view : decode(k).start <= decode(k).end
    /\ \A k1 \in DOMAIN view, k2 \in DOMAIN view :
          (k1 # k2 /\ decode(k1).database_id = decode(k2).database_id)
             => ~Overlap(decode(k1), decode(k2))

\* the metadata of the registered range of database_id that contains frame_no
Expected(view, database_id, frame_no) ==
    LET hits == {k \in KeysOf(view, database_id) : Covers(decode(k), frame_no)}
    IN  IF hits = {} THEN None ELSE Some(view[CHOOSE k \in hits : TRUE])

\* a step in which locate begins its read transaction
BeginStep == rd.pc # "txn" /\ rd'.pc = "txn"

\* a step in which locate returns, the store having answered
GetStep == rd.pc = "txn" /\ rd'.pc = "done" /\ rd'.store_err = "none"

\* a step in which register returns: the write transaction stays open, with
\* the row in it
RegisterStep ==
    /\ wtxn.state = "open" /\ wtxn'.state = "open"
    /\ reg'.called
    /\ wtxn' # wtxn \/ reg' # reg

X == SnapshotMeta("X")
Y == SnapshotMeta("Y")

----------------------------------------------------------------------------
(* Claims *)

\* C1: on a table whose ranges are valid and disjoint per database, locate(D, f)
\* returns the metadata of the range of D that contains f, and None when there
\* is none (f below the first range, beyond the last, in a gap, empty table).
C1_Containment ==
    [][(GetStep /\ WellFormed(rd.view))
          => rd'.outcome = Expected(rd.view, rd'.database_id, rd'.frame_no)]_vars

\* two adjacent ranges committed for one database, and a lookup of the first
\* frame of the second one answered with the second one's metadata
C1_Witness ==
    /\ committed = put(put(EmptyTable, KeyOf(DbHigh, 2, U64_MAX - 1), X),
                       KeyOf(DbHigh, U64_MAX, U64_MAX), Y)
    /\ rd.pc = "done"
    /\ rd.database_id = DbHigh /\ rd.frame_no = U64_MAX
    /\ rd.outcome = Some(Y)

\* C2: a hit of locate(D2, f) is the metadata of a row of D2, whatever the
\* table holds; when D2 has no row with start <= f the result is None, also
\* when the probe lands on a row of a smaller database.
C2_Isolation ==
    [][GetStep =>
        /\ rd'.outcome.kind = "Some" =>
              \E k \in KeysOf(rd.view, rd'.database_id) : rd.view[k] = rd'.outcome.v
        /\ (\A k \in KeysOf(rd.view, rd'.database_id) : decode(k).start > rd'.frame_no)
              => rd'.outcome = None]_vars

\* only the smaller database has a row, it contains the frame, the probe of the
\* larger database lands on it, and the lookup in the larger database found nothing
C2_Witness ==
    /\ committed = put(EmptyTable, KeyOf(DbLow, 1, U64_MAX), X)
    /\ rd.pc = "done"
    /\ rd.database_id = DbHigh /\ rd.frame_no = 2
    /\ rd.outcome = None
    /\ get_lower_than_or_equal_to(committed, key_bytes(probe_key(DbHigh, 2))).found

\* C3: a read transaction begun while a write transaction is open sees the table
\* as it was before that transaction, and keeps seeing it when the transaction
\* commits; the commit publishes every row registered in the transaction, and a
\* read transaction begun after it sees them; locate answers from what its read
\* transaction sees.
C3_Visibility ==
    [][/\ (BeginStep /\ wtxn.state = "open") => rd'.view = wtxn.base
       /\ (wtxn.state = "open" /\ wtxn'.state = "committed")
             => (committed' = wtxn.view /\ rd' = rd)
       /\ (BeginStep /\ wtxn.state # "open") => rd'.view = committed
       /\ (rd.pc = "txn" /\ rd'.pc = "txn") => rd'.view = rd.view
       /\ GetStep => rd'.outcome = locate(rd.view, rd'.database_id, rd'.frame_no)]_vars

\* a read transaction begun before the commit of a register is still open after
\* it: a lookup in it finds nothing where a lookup begun now finds the row
C3_Witness ==
    /\ wtxn.state = "committed" /\ reg.outcome = "returned"
    /\ rd.pc = "txn"
    /\ locate(rd.view, DbHigh, 2) = None
    /\ locate(committed, DbHigh, 2) = Some(X)

\* C4: register does not commit: a step of register, of abort or of a failed
\* commit leaves the committed table as it was, so no read transaction, begun
\* before or after the abort, sees a row of the aborted transaction.
C4_AbortLeavesTable ==
    [][/\ RegisterStep => (committed' = committed /\ wtxn'.state = "open")
       /\ (wtxn.state = "open" /\ wtxn'.state = "aborted") => committed' = wtxn.base
       /\ BeginStep => rd'.view = committed]_vars

\* a register returned, its transaction was aborted, the table is still empty
\* and a lookup found nothing
C4_Witness ==
    /\ wtxn.state = "aborted" /\ reg.outcome = "returned"
    /\ committed = EmptyTable
    /\ rd.pc = "done" /\ rd.outcome = None

\* C7: with valid ranges for D and a range (D, s, u64::MAX) that overlaps no
\* other range of D, locate(D, u64::MAX) returns that range's metadata.
C7_MaxBoundary ==
    [][(GetStep /\ rd'.frame_no = U64_MAX) =>
        \A k \in KeysOf(rd.view, rd'.database_id) :
           (/\ decode(k).end = U64_MAX
            /\ \A j \in KeysOf(rd.view, rd'.database_id) :
                  /\ decode(j).start <= decode(j).end
                  /\ j # k => ~Overlap(decode(j), decode(k)))
              => rd'.outcome = Some(rd.view[k])]_vars

\* the range of the single frame u64::MAX, whose key equals the probe key, is
\* committed next to the range that ends right below it, and was found
C7_Witness ==
    /\ committed = put(put(EmptyTable, KeyOf(DbLow, 2, U64_MAX - 1), Y),
                       KeyOf(DbLow, U64_MAX, U64_MAX), X)
    /\ key_bytes(probe_key(DbLow, U64_MAX)) = KeyOf(DbLow, U64_MAX, U64_MAX)
    /\ rd.pc = "done"
    /\ rd.database_id = DbLow /\ rd.frame_no = U64_MAX
    /\ rd.outcome = Some(X)

\* C8, as claimed: every key -> metadata pair of the table before a register is
\* in the table after it with the same metadata.
C8_NeverUpdatesInPlace ==
    [][RegisterStep =>
        \A k \in DOMAIN wtxn.view :
           k \in DOMAIN wtxn'.view /\ wtxn'.view[k] = wtxn.view[k]]_vars

\* C8, amended: a register of (D, s, e, u) leaves every pair with another key as
\* it was, checks nothing and returns; the table then holds u under the key of
\* (D, s, e): as a new row next to the ranges it overlaps when the key was not
\* there, and in place of the metadata the key had when it was.
C8_OtherRowsKept ==
    [][RegisterStep =>
        /\ reg'.outcome = "returned"
        /\ \E k \in DOMAIN wtxn'.view :
              /\ DOMAIN wtxn'.view = DOMAIN wtxn.view \cup {k}
              /\ \A j \in DOMAIN wtxn.view \ {k} : wtxn'.view[j] = wtxn.view[j]]_vars

\* a key that is committed under one snapshot has another one in the open write
\* transaction, whose register returned
C8_Witness ==
    /\ wtxn.state = "open" /\ reg.outcome = "returned"
    /\ \E k \in DOMAIN committed :
          k \in DOMAIN wtxn.view /\ wtxn.view[k] # committed[k]

\* C9, as claimed: when the store fails on the query, locate returns a
\* corruption error to its caller.
C9_CorruptionErrorSurfaced ==
    (rd.pc = "done" /\ rd.store_err = "get") => rd.outcome.kind = "CorruptionError"

\* C10, as claimed: when the store fails on the put, register returns.
C10_RegisterReturns ==
    (reg.called /\ ~reg.put_ok) => reg.outcome = "returned"

\* C11, as claimed: when the read transaction cannot be begun, locate returns
\* an error value to its caller.
C11_TransactionErrorSurfaced ==
    (rd.pc = "done" /\ rd.store_err = "read_txn") => rd.outcome.kind = "TransactionError"

\* C12: no step of locate changes the table or the write transaction, so the
\* result a lookup returns on the table as committed is the result a lookup of
\* the same arguments returns on the table it leaves, whatever other lookups
\* come between.
C12_ReadOnlyLookups ==
    [][/\ rd' # rd => (committed' = committed /\ wtxn' = wtxn /\ reg' = reg)
       /\ (GetStep /\ rd.view = committed)
             => rd'.outcome = locate(committed', rd'.database_id, rd'.frame_no)]_vars

\* a lookup has returned a hit from a table that holds two rows, and the same
\* lookup on the table as it stands gives the same hit
C12_Witness ==
    /\ Cardinality(DOMAIN committed) = 2
    /\ wtxn.state = "committed"
    /\ rd.pc = "done" /\ rd.outcome.kind = "Some"
    /\ rd.outcome = locate(committed, rd.database_id, rd.frame_no)

\* C13, as claimed: when new returns a store the named table is in the
\* environment, committed; when a step of new fails (the write transaction, the
\* creation of the table, the commit) new returns an error and no store.
C13_InitializationError ==
    /\ store.pc = "open" => (store.outcome = "Ok" /\ store.table)
    /\ store.failed # "none" => (store.outcome = "Err" /\ store.pc = "failed")

----------------------------------------------------------------------------
(* The entry a lookup examines *)

\* the rows of database_id that start at or below frame_no
StartingBelow(view, database_id, frame_no) ==
    {k \in KeysOf(view, database_id) : decode(k).start <= frame_no}

\* C14: every key of D with start <= f is at or below the probe (D, f, u64::MAX)
\* whatever its end, every key of D with start > f is above it; so when D has a
\* row with start <= f, the entry the query gives is a row of D, with the
\* greatest start <= f, and it is the entry locate matches.
C14_ProbeSelection ==
    [][GetStep =>
        \A probe \in {KeyOf(rd'.database_id, rd'.frame_no, U64_MAX)} :
        \A e \in {get_lower_than_or_equal_to(rd.view, probe)} :
        \A below \in {StartingBelow(rd.view, rd'.database_id, rd'.frame_no)} :
           /\ \A k \in below : BytesLeq(k, probe)
           /\ \A k \in KeysOf(rd.view, rd'.database_id) \ below : BytesLess(probe, k)
           /\ below # {} =>
                 /\ e.found
                 /\ e.key \in below
                 /\ \A j \in below : decode(j).start <= decode(e.key).start
                 /\ rd'.outcome = locate_match(e, rd'.database_id, rd'.frame_no)]_vars

\* of two overlapping ranges of one database, the one with the greater start
\* answered a lookup of a frame that both contain
C14_Witness ==
    /\ committed = put(put(EmptyTable, KeyOf(DbHigh, 1, U64_MAX), X),
                       KeyOf(DbHigh, 2, U64_MAX - 1), Y)
    /\ rd.pc = "done"
    /\ rd.database_id = DbHigh /\ rd.frame_no = U64_MAX - 1
    /\ rd.outcome = Some(Y)

\* C15: whatever the table holds, a hit of locate(D, f) is the metadata of a row
\* (D, s, e) with s <= f <= e, so of a row whose start is not above its end.
C15_HitsAreSound ==
    [][(GetStep /\ rd'.outcome.kind = "Some") =>
        \E k \in KeysOf(rd.view, rd'.database_id) :
           /\ rd.view[k] = rd'.outcome.v
           /\ Covers(decode(k), rd'.frame_no)
           /\ decode(k).start <= decode(k).end]_vars

\* a table with a range whose start is above its end, and a hit in the valid
\* range next to it
C15_Witness ==
    /\ committed = put(put(EmptyTable, KeyOf(DbLow, 1, U64_MAX), X),
                       KeyOf(DbLow, 2, 1), Y)
    /\ rd.pc = "done"
    /\ rd.database_id = DbLow /\ rd.frame_no = 1
    /\ rd.outcome = Some(X)

\* C16: locate(D, f) answers from the one row of D with the greatest
\* (start, end) among those with start <= f: a result other than None is that
\* row's metadata and that row contains f, so when that row ends below f the
\* result is None, also when another row of D contains f; the result is never
\* an error.
C16_OnlyGreatestExamined ==
    [][GetStep =>
        /\ rd'.outcome.kind \in {"None", "Some"}
        /\ rd'.outcome # None =>
              \E below \in {StartingBelow(rd.view, rd'.database_id, rd'.frame_no)} :
              \E g \in below :
                 /\ \A j \in below :
                       \/ decode(j).start < decode(g).start
                       \/ decode(j).start = decode(g).start /\ decode(j).end <= decode(g).end
                 /\ decode(g).end >= rd'.frame_no
                 /\ rd'.outcome = Some(rd.view[g])]_vars

\* a range and a smaller one inside it are committed; a lookup of a frame of
\* the first beyond the end of the second found nothing
C16_Witness ==
    /\ committed = put(put(EmptyTable, KeyOf(DbHigh, 1, U64_MAX), X),
                       KeyOf(DbHigh, 2, U64_MAX - 1), Y)
    /\ rd.pc = "done"
    /\ rd.database_id = DbHigh /\ rd.frame_no = U64_MAX
    /\ rd.outcome = None

====
